---- MODULE Spec2Model ----
(***************************************************************************)
(* Model of map_claims.go (package jwt): the MapClaims claim store, its    *)
(* leeway, the five standard-claim verifiers and Valid().                  *)
(*                                                                         *)
(* A dynamically typed claim value (interface{}) is a record               *)
(*   [kind, num, txt, str, list]                                           *)
(* kind is the Go dynamic type.  A float64 is held in num as an integer    *)
(* number of tenths (the float64 values of the model are the multiples of  *)
(* 0.1, so 10.9 is num = 109).  A json.Number is held in txt as its text,  *)
(* one character per element.  A Go string is held in str, a []string in   *)
(* list.  All other integers of the model are whole seconds and stay far   *)
(* from the int64 limits, so no int64 operation of the model overflows.    *)
(***************************************************************************)
EXTENDS Integers, Sequences, FiniteSets, TLC

\* Stored whole-second claim values range over -MaxSec..MaxSec.
MaxSec == 1

----------------------------------------------------------------------------
(* Go arithmetic *)

Abs(x) == IF x < 0 THEN -x ELSE x

\* Go's integer division and float64 -> int64 conversion truncate toward zero.
TruncDiv(a, b) == IF (a < 0) = (b < 0) THEN Abs(a) \div Abs(b) ELSE -(Abs(a) \div Abs(b))

\* int64(f) for the float64 f = tenths/10.
Int64OfFloat(tenths) == TruncDiv(tenths, 10)

----------------------------------------------------------------------------
(* json.Number.Int64(): strconv.ParseInt(text, 10, 64) *)

DigitChars == <<"0", "1", "2", "3", "4", "5", "6", "7", "8", "9">>

IsDigit(c) == \E i \in 1..10 : DigitChars[i] = c

DigitVal(c) == (CHOOSE i \in 1..10 : DigitChars[i] = c) - 1

RECURSIVE DigitsVal(_)
DigitsVal(cs) ==
    IF cs = <<>> THEN 0
    ELSE 10 * DigitsVal(SubSeq(cs, 1, Len(cs) - 1)) + DigitVal(cs[Len(cs)])

\* ParseInt: an optional sign, then one or more decimal digits and nothing
\* else.  Any other text is a syntax error, and the value returned with the
\* error is 0.
ParseInt(cs) ==
    LET signed == cs # <<>> /\ cs[1] \in {"+", "-"}
        body   == IF signed THEN SubSeq(cs, 2, Len(cs)) ELSE cs
        ok     == body # <<>> /\ \A i \in 1..Len(body) : IsDigit(body[i])
        mag    == IF ok THEN DigitsVal(body) ELSE 0
    IN  [v   |-> IF signed /\ cs[1] = "-" THEN -mag ELSE mag,
         err |-> ~ok]

----------------------------------------------------------------------------
(* Claim values *)

Val(k, n, t, s, l) == [kind |-> k, num |-> n, txt |-> t, str |-> s, list |-> l]

Nil          == Val("nil", 0, <<>>, "", <<>>)
Float64(t)   == Val("float64", t, <<>>, "", <<>>)
Number(cs)   == Val("json.Number", 0, cs, "", <<>>)
String(s)    == Val("string", 0, <<>>, s, <<>>)
Bool(b)      == Val("bool", IF b THEN 1 ELSE 0, <<>>, "", <<>>)
IntVal(n)    == Val("int", n, <<>>, "", <<>>)
Strings(l)   == Val("[]string", 0, <<>>, "", l)
Anys(l)      == Val("[]interface{}", 0, <<>>, "", l)

Keys == {"exp", "iat", "nbf", "aud", "iss"}

TimeKeys == {"exp", "iat", "nbf"}

\* MapClaim{}: no claim is set.
EmptyClaim == [k \in Keys |-> Nil]

set(mc, k, v) == [mc EXCEPT ![k] = v]

get(mc, k) == mc[k]

\* A MapClaims value: the (shared) map and the value's own leeway.
MapClaims(mc, l) == [MapClaim |-> mc, leeway |-> l]

----------------------------------------------------------------------------
(* Helpers of the package that map_claims.go calls (claims.go, errors.go)  *)

verifyAud(aud, cmp, required) ==
    IF Len(aud) = 0 THEN ~required
    ELSE \E i \in 1..Len(aud) : aud[i] = cmp

verifyExp(exp, now, required) == now <= exp

verifyIat(iat, now, required) == now >= iat

verifyNbf(nbf, now, required) == now >= nbf

verifyIss(iss, cmp, required) ==
    IF required THEN iss = cmp ELSE iss = cmp \/ iss = ""

\* The bits of ValidationError.Errors; the bitmask is the set of bits set.
ValidationErrorExpired == "Expired"

ValidationErrorIssuedAt == "IssuedAtInvalid"

ValidationErrorNotValidYet == "NotYetValid"

\* new(ValidationError)
NewValidationError == [Inner |-> "", Errors |-> {}]

valid(e) == e.Errors = {}

----------------------------------------------------------------------------
(* The verifiers of map_claims.go *)

VerifyAudience(m, cmp, req) ==
    LET v == get(m.MapClaim, "aud")
    IN  IF v.kind = "[]string" THEN verifyAud(v.list, cmp, req)
        ELSE IF v.kind = "string" THEN verifyAud(<<v.str>>, cmp, req)
        ELSE FALSE

\* Variant: the arguments of verifyExp exchanged.
VerifyExpiresAt_Swapped(m, cmp, req) ==
    LET exp == get(m.MapClaim, "exp")
    IN  CASE exp.kind = "float64" -> verifyExp(cmp, Int64OfFloat(exp.num), req)
          [] exp.kind = "json.Number" -> verifyExp(cmp, ParseInt(exp.txt).v, req)
          [] OTHER -> (req = FALSE)

\* Variant: the leeway subtracted from exp as it is from iat and nbf.
VerifyExpiresAt_Leeway(m, cmp, req) ==
    LET exp == get(m.MapClaim, "exp")
    IN  CASE exp.kind = "float64" -> verifyExp(Int64OfFloat(exp.num) - m.leeway, cmp, req)
          [] exp.kind = "json.Number" -> verifyExp(ParseInt(exp.txt).v - m.leeway, cmp, req)
          [] OTHER -> (req = FALSE)

VerifyExpiresAt(m, cmp, req) ==
    LET exp == get(m.MapClaim, "exp")
    IN  CASE exp.kind = "float64" -> verifyExp(Int64OfFloat(exp.num), cmp, req)
          [] exp.kind = "json.Number" -> verifyExp(ParseInt(exp.txt).v, cmp, req)
          [] OTHER -> (req = FALSE)

\* Variant: the leeway added instead of subtracted.
VerifyIssuedAt_AddLeeway(m, cmp, req) ==
    LET iat == get(m.MapClaim, "iat")
    IN  CASE iat.kind = "float64" -> verifyIat(Int64OfFloat(iat.num) + m.leeway, cmp, req)
          [] iat.kind = "json.Number" -> verifyIat(ParseInt(iat.txt).v + m.leeway, cmp, req)
          [] OTHER -> (req = FALSE)

VerifyIssuedAt(m, cmp, req) ==
    LET iat == get(m.MapClaim, "iat")
    IN  CASE iat.kind = "float64" -> verifyIat(Int64OfFloat(iat.num) - m.leeway, cmp, req)
          [] iat.kind = "json.Number" -> verifyIat(ParseInt(iat.txt).v - m.leeway, cmp, req)
          [] OTHER -> (req = FALSE)

\* Variant: the arguments of verifyIss exchanged.
VerifyIssuer_Swapped(m, cmp, req) ==
    LET v   == get(m.MapClaim, "iss")
        iss == IF v.kind = "string" THEN v.str ELSE ""
    IN  verifyIss(cmp, iss, req)

VerifyIssuer(m, cmp, req) ==
    LET v   == get(m.MapClaim, "iss")
        iss == IF v.kind = "string" THEN v.str ELSE ""
    IN  verifyIss(iss, cmp, req)

\* Variant: the fall-through returns req instead of req == false.
VerifyNotBefore_DefaultReq(m, cmp, req) ==
    LET nbf == get(m.MapClaim, "nbf")
    IN  CASE nbf.kind = "float64" -> verifyNbf(Int64OfFloat(nbf.num) - m.leeway, cmp, req)
          [] nbf.kind = "json.Number" -> verifyNbf(ParseInt(nbf.txt).v - m.leeway, cmp, req)
          [] OTHER -> req

VerifyNotBefore(m, cmp, req) ==
    LET nbf == get(m.MapClaim, "nbf")
    IN  CASE nbf.kind = "float64" -> verifyNbf(Int64OfFloat(nbf.num) - m.leeway, cmp, req)
          [] nbf.kind = "json.Number" -> verifyNbf(ParseInt(nbf.txt).v - m.leeway, cmp, req)
          [] OTHER -> (req = FALSE)

----------------------------------------------------------------------------
(* Leeway and Valid *)

\* time.Duration.Milliseconds() of a duration of n nanoseconds.
Milliseconds(n) == TruncDiv(n, 1000000)

\* Variant: a pointer receiver, so the assignment reaches the caller's store.
Leeway_Pointer(m, n) ==
    [recv |-> [m EXCEPT !.leeway = TruncDiv(Milliseconds(n), 1000)],
     ret  |-> [m EXCEPT !.leeway = TruncDiv(Milliseconds(n), 1000)]]

\* Leeway has a value receiver: the assignment is made to the method's copy
\* of m, which is what it returns.  recv is the receiver after the call.
Leeway(m, n) ==
    [recv |-> m,
     ret  |-> [m EXCEPT !.leeway = TruncDiv(Milliseconds(n), 1000)]]

\* Variant: the issued-at check made with required = true.
Valid_Required(m, now) ==
    LET e0 == NewValidationError
        e1 == IF VerifyExpiresAt(m, now, FALSE) = FALSE
              THEN [Inner  |-> "Token is expired",
                    Errors |-> e0.Errors \cup {ValidationErrorExpired}]
              ELSE e0
        e2 == IF VerifyIssuedAt(m, now, TRUE) = FALSE
              THEN [Inner  |-> "Token used before issued",
                    Errors |-> e1.Errors \cup {ValidationErrorIssuedAt}]
              ELSE e1
        e3 == IF VerifyNotBefore(m, now, FALSE) = FALSE
              THEN [Inner  |-> "Token is not valid yet",
                    Errors |-> e2.Errors \cup {ValidationErrorNotValidYet}]
              ELSE e2
    IN  IF valid(e3)
        THEN [isNil |-> TRUE, Inner |-> "", Errors |-> {}]
        ELSE [isNil |-> FALSE, Inner |-> e3.Inner, Errors |-> e3.Errors]

\* Variant: the not-before check made before the issued-at check.
Valid_Reordered(m, now) ==
    LET e0 == NewValidationError
        e1 == IF VerifyExpiresAt(m, now, FALSE) = FALSE
              THEN [Inner  |-> "Token is expired",
                    Errors |-> e0.Errors \cup {ValidationErrorExpired}]
              ELSE e0
        e2 == IF VerifyNotBefore(m, now, FALSE) = FALSE
              THEN [Inner  |-> "Token is not valid yet",
                    Errors |-> e1.Errors \cup {ValidationErrorNotValidYet}]
              ELSE e1
        e3 == IF VerifyIssuedAt(m, now, FALSE) = FALSE
              THEN [Inner  |-> "Token used before issued",
                    Errors |-> e2.Errors \cup {ValidationErrorIssuedAt}]
              ELSE e2
    IN  IF valid(e3)
        THEN [isNil |-> TRUE, Inner |-> "", Errors |-> {}]
        ELSE [isNil |-> FALSE, Inner |-> e3.Inner, Errors |-> e3.Errors]

\* now is the one value read from TimeFunc().Unix().  The result is the
\* returned error: isNil for the nil error, else the ValidationError.
Valid(m, now) ==
    LET e0 == NewValidationError
        e1 == IF VerifyExpiresAt(m, now, FALSE) = FALSE
              THEN [Inner  |-> "Token is expired",
                    Errors |-> e0.Errors \cup {ValidationErrorExpired}]
              ELSE e0
        e2 == IF VerifyIssuedAt(m, now, FALSE) = FALSE
              THEN [Inner  |-> "Token used before issued",
                    Errors |-> e1.Errors \cup {ValidationErrorIssuedAt}]
              ELSE e1
        e3 == IF VerifyNotBefore(m, now, FALSE) = FALSE
              THEN [Inner  |-> "Token is not valid yet",
                    Errors |-> e2.Errors \cup {ValidationErrorNotValidYet}]
              ELSE e2
    IN  IF valid(e3)
        THEN [isNil |-> TRUE, Inner |-> "", Errors |-> {}]
        ELSE [isNil |-> FALSE, Inner |-> e3.Inner, Errors |-> e3.Errors]

----------------------------------------------------------------------------
(* Inputs *)

WholeSecs == -MaxSec..MaxSec

\* float64 claim values, in tenths: the whole seconds, and values with a
\* fractional part on both sides of zero.
FloatTenths ==
    {10 * w : w \in WholeSecs} \cup {-(10 * MaxSec + 5), -5, 10 * MaxSec + 5}

RECURSIVE NatText(_)
NatText(n) ==
    IF n < 10 THEN <<DigitChars[n + 1]>>
    ELSE Append(NatText(n \div 10), DigitChars[(n % 10) + 1])

\* The JSON number text of tenths/10, as a decoder set to keep numbers as
\* json.Number hands it over: "-1", "0", "1.5", "-0.5".
DecimalText(tenths) ==
    (IF tenths < 0 THEN <<"-">> ELSE <<>>)
        \o NatText(Abs(tenths) \div 10)
        \o (IF Abs(tenths) % 10 = 0 THEN <<>>
            ELSE <<".", DigitChars[(Abs(tenths) % 10) + 1]>>)

\* Values that are neither float64 nor json.Number.
OtherShapes == {String("soon"), Bool(TRUE), IntVal(1)}

TimeVals ==
    {Nil} \cup OtherShapes
          \cup {Float64(t) : t \in FloatTenths}
          \cup {Number(DecimalText(t)) : t \in FloatTenths}

\* The values of the stores on which Valid is checked with all three time
\* claims set at once.
ValidVals == {Nil, String("soon")} \cup {Float64(10 * w) : w \in WholeSecs}

\* now and cmp: the stored seconds, widened by the largest leeway and one more.
Times == -(MaxSec + 2)..(MaxSec + 2)

\* Durations in nanoseconds: whole and fractional seconds of both signs.
Durations ==
    {-1999999999, -1000000000, -999999999, 0, 999999, 1000000000, 1999999999}

AudVals ==
    {Nil, String("x"), String("y"), Strings(<<>>), Strings(<<"y">>),
     Strings(<<"x", "y">>), Anys(<<"x">>), IntVal(1)}

IssVals == {Nil, String(""), String("x"), String("y"), IntVal(1)}

Names == {"", "x", "y"}

----------------------------------------------------------------------------
(* State *)

VARIABLES
    store,  \* the map of the claim store; s and r share it
    s,      \* the leeway of the caller's store s
    r,      \* the leeway of the store r last returned by s.Leeway
    ret     \* the last call: its arguments and what it returned

vars == <<store, s, r, ret>>

S == MapClaims(store, s)

R == MapClaims(store, r)

NoError == [isNil |-> TRUE, Inner |-> "", Errors |-> {}]

\* A call record: op, the int64 argument, the string argument, required, the
\* duration, the receiver's leeway before the call, and the results of the
\* call made on s and of the same call made on r.
Call(op, cmp, name, req, d, before, resS, resR, errS, errR) ==
    [op |-> op, cmp |-> cmp, name |-> name, req |-> req, d |-> d,
     before |-> before, resS |-> resS, resR |-> resR, errS |-> errS, errR |-> errR]

NoCall(op) == Call(op, 0, "", FALSE, 0, 0, FALSE, FALSE, NoError, NoError)

Init ==
    /\ store = EmptyClaim
    /\ s = 0
    /\ r = 0
    /\ ret = NoCall("new")

----------------------------------------------------------------------------
(* Calls *)

\* MapClaim{}.set(k, v): a new store holding one claim.
Fresh(V) ==
    \E k \in TimeKeys, v \in V :
        /\ store' = set(EmptyClaim, k, v)
        /\ ret' = NoCall("set")
        /\ UNCHANGED <<s, r>>

\* m.set(k, v) on the store in use.
SetCall(K, V) ==
    \E k \in K, v \in V :
        /\ store' = set(store, k, v)
        /\ ret' = NoCall("set")
        /\ UNCHANGED <<s, r>>

\* r = s.Leeway(d)
LeewayCall ==
    \E d \in Durations :
        LET out == Leeway(S, d)
        IN  /\ s' = out.recv.leeway
            /\ r' = out.ret.leeway
            /\ ret' = Call("Leeway", 0, "", FALSE, d, s, FALSE, FALSE, NoError, NoError)
            /\ UNCHANGED store

\* s = r: the caller goes on with the store Leeway returned.
Rebind ==
    /\ s # r
    /\ s' = r
    /\ ret' = NoCall("rebind")
    /\ UNCHANGED <<store, r>>

VerifyExpiresAtCall ==
    \E cmp \in Times, req \in BOOLEAN :
        /\ ret' = Call("VerifyExpiresAt", cmp, "", req, 0, 0,
                       VerifyExpiresAt(S, cmp, req), VerifyExpiresAt(R, cmp, req),
                       NoError, NoError)
        /\ UNCHANGED <<store, s, r>>

VerifyIssuedAtCall ==
    \E cmp \in Times, req \in BOOLEAN :
        /\ ret' = Call("VerifyIssuedAt", cmp, "", req, 0, 0,
                       VerifyIssuedAt(S, cmp, req), VerifyIssuedAt(R, cmp, req),
                       NoError, NoError)
        /\ UNCHANGED <<store, s, r>>

VerifyNotBeforeCall ==
    \E cmp \in Times, req \in BOOLEAN :
        /\ ret' = Call("VerifyNotBefore", cmp, "", req, 0, 0,
                       VerifyNotBefore(S, cmp, req), VerifyNotBefore(R, cmp, req),
                       NoError, NoError)
        /\ UNCHANGED <<store, s, r>>

VerifyAudienceCall ==
    \E cmp \in Names, req \in BOOLEAN :
        /\ ret' = Call("VerifyAudience", 0, cmp, req, 0, 0,
                       VerifyAudience(S, cmp, req), VerifyAudience(R, cmp, req),
                       NoError, NoError)
        /\ UNCHANGED <<store, s, r>>

VerifyIssuerCall ==
    \E cmp \in Names, req \in BOOLEAN :
        /\ ret' = Call("VerifyIssuer", 0, cmp, req, 0, 0,
                       VerifyIssuer(S, cmp, req), VerifyIssuer(R, cmp, req),
                       NoError, NoError)
        /\ UNCHANGED <<store, s, r>>

\* Valid() with TimeFunc().Unix() returning now.
ValidCall ==
    \E now \in Times :
        /\ ret' = Call("Valid", now, "", FALSE, 0, 0, FALSE, FALSE,
                       Valid(S, now), Valid(R, now))
        /\ UNCHANGED <<store, s, r>>

----------------------------------------------------------------------------
(* Specifications *)

\* The verifiers of the time claims and Valid, on stores of one claim.
NextVerify ==
    \/ Fresh(TimeVals)
    \/ LeewayCall
    \/ Rebind
    \/ VerifyExpiresAtCall
    \/ VerifyIssuedAtCall
    \/ VerifyNotBeforeCall
    \/ ValidCall

SpecVerify == Init /\ [][NextVerify]_vars

\* Valid on stores of up to three time claims.
NextValid ==
    \/ SetCall(TimeKeys, ValidVals)
    \/ LeewayCall
    \/ Rebind
    \/ ValidCall

SpecValid == Init /\ [][NextValid]_vars

\* The time verifiers and Valid on stores whose time claims are absent, of
\* another shape, or one float64.
ShapeVals == {Nil, Float64(0)} \cup OtherShapes

NextShape ==
    \/ SetCall(TimeKeys, ShapeVals)
    \/ LeewayCall
    \/ Rebind
    \/ VerifyExpiresAtCall
    \/ VerifyIssuedAtCall
    \/ VerifyNotBeforeCall
    \/ ValidCall

SpecShape == Init /\ [][NextShape]_vars

\* The verifiers of aud and iss.
NextIdent ==
    \/ SetCall({"aud"}, AudVals)
    \/ SetCall({"iss"}, IssVals)
    \/ LeewayCall
    \/ Rebind
    \/ VerifyAudienceCall
    \/ VerifyIssuerCall

SpecIdent == Init /\ [][NextIdent]_vars

----------------------------------------------------------------------------
(* Properties *)

\* v holds a whole number of seconds: a float64 without fractional part or
\* the decimal text of an integer.
IsWhole(v) ==
    \/ v.kind = "float64" /\ \E w \in WholeSecs : v.num = 10 * w
    \/ v.kind = "json.Number" /\ \E w \in WholeSecs : v.txt = DecimalText(10 * w)

WholeOf(v) ==
    CHOOSE w \in WholeSecs :
        \/ v.kind = "float64" /\ v.num = 10 * w
        \/ v.kind = "json.Number" /\ v.txt = DecimalText(10 * w)

\* v is neither a float64 nor a json.Number (absent included).
Unusable(v) == v.kind \notin {"float64", "json.Number"}

\* A duration of d nanoseconds in whole seconds, truncated toward zero.
WholeSeconds(d) ==
    IF d >= 0 THEN d \div 1000000000 ELSE -((-d) \div 1000000000)

Leeways == {WholeSeconds(d) : d \in Durations}

\* The bits Valid is to report at now for the store m.
FailingBits(m, now) ==
    {b \in {ValidationErrorExpired, ValidationErrorIssuedAt, ValidationErrorNotValidYet} :
        \/ b = ValidationErrorExpired /\ ~VerifyExpiresAt(m, now, FALSE)
        \/ b = ValidationErrorIssuedAt /\ ~VerifyIssuedAt(m, now, FALSE)
        \/ b = ValidationErrorNotValidYet /\ ~VerifyNotBefore(m, now, FALSE)}

\* C1: when aud is absent, of a shape other than []string or string, or an
\* empty []string, VerifyAudience(expected, required) returns !required.
C1_AudienceAbsent ==
    (/\ ret.op = "VerifyAudience"
     /\ \/ store["aud"].kind \notin {"[]string", "string"}
        \/ store["aud"] = Strings(<<>>))
        => ret.resS = ~ret.req

\* C2: with iat stored as a whole number of seconds and leeway L,
\* VerifyIssuedAt(now, required) is true exactly when now >= iat - L; so
\* VerifyIssuedAt(iat - L, true) is true and VerifyIssuedAt(iat - L - 1, true)
\* is false, for L negative, zero or positive.
C2_IssuedAtLeeway ==
    IsWhole(store["iat"]) =>
        LET iat == WholeOf(store["iat"])
        IN  /\ ret.op = "VerifyIssuedAt" =>
                    /\ ret.resS = (ret.cmp >= iat - s)
                    /\ ret.resR = (ret.cmp >= iat - r)
            /\ \A L \in Leeways :
                    /\ VerifyIssuedAt(MapClaims(store, L), iat - L, TRUE) = TRUE
                    /\ VerifyIssuedAt(MapClaims(store, L), iat - L - 1, TRUE) = FALSE

C2_Witness ==
    /\ ret.op = "VerifyIssuedAt"
    /\ IsWhole(store["iat"])
    /\ r < 0
    /\ s = 0
    /\ ret.req
    /\ ret.cmp = WholeOf(store["iat"]) - r - 1
    /\ ret.resR = FALSE
    /\ ret.resS = TRUE

\* C3: with exp stored as a whole number of seconds e, VerifyExpiresAt(now,
\* required) is true exactly when now <= e, for both values of required:
\* true at now = e, false at now = e + 1.
C3_ExpiresAt ==
    IsWhole(store["exp"]) =>
        LET e == WholeOf(store["exp"])
        IN  /\ ret.op = "VerifyExpiresAt" =>
                    /\ ret.resS = (ret.cmp <= e)
                    /\ ret.resR = (ret.cmp <= e)
            /\ \A req \in BOOLEAN :
                    /\ VerifyExpiresAt(S, e, req) = TRUE
                    /\ VerifyExpiresAt(S, e + 1, req) = FALSE

C3_Witness ==
    /\ ret.op = "VerifyExpiresAt"
    /\ IsWhole(store["exp"])
    /\ ret.cmp = WholeOf(store["exp"]) + 1
    /\ ~ret.req
    /\ ret.resS = FALSE

C5_ExpiryIgnoresLeeway ==
    /\ ret.op = "VerifyExpiresAt" => ret.resS = ret.resR
    /\ ret.op = "Valid" =>
            (ValidationErrorExpired \in ret.errS.Errors)
                = (ValidationErrorExpired \in ret.errR.Errors)
    /\ \A L1 \in Leeways, L2 \in Leeways, now \in Times, req \in BOOLEAN :
            VerifyExpiresAt(MapClaims(store, L1), now, req)
                = VerifyExpiresAt(MapClaims(store, L2), now, req)

C5_Witness ==
    /\ ret.op = "VerifyExpiresAt"
    /\ s # r
    /\ ~Unusable(store["exp"])
    /\ ret.cmp = Int64OfFloat(store["exp"].num)
    /\ ret.resS = TRUE
    /\ ret.resR = TRUE

\* C6: s.Leeway(d) returns a store whose leeway is d in whole seconds,
\* whatever the leeway of s was, and s keeps its leeway: VerifyIssuedAt and
\* VerifyNotBefore on s use the old leeway, on the returned store the new.
C6_LeewayByValue ==
    ret.op = "Leeway" =>
        /\ r = WholeSeconds(ret.d)
        /\ s = ret.before
        /\ \A now \in Times, req \in BOOLEAN :
            /\ VerifyIssuedAt(S, now, req)
                    = VerifyIssuedAt(MapClaims(store, ret.before), now, req)
            /\ VerifyNotBefore(S, now, req)
                    = VerifyNotBefore(MapClaims(store, ret.before), now, req)
            /\ VerifyIssuedAt(R, now, req)
                    = VerifyIssuedAt(MapClaims(store, WholeSeconds(ret.d)), now, req)
            /\ VerifyNotBefore(R, now, req)
                    = VerifyNotBefore(MapClaims(store, WholeSeconds(ret.d)), now, req)

C6_Witness ==
    /\ ret.op = "Leeway"
    /\ ret.before = 1
    /\ ret.d = -1999999999
    /\ r = -1
    /\ s = 1

\* C7: with iss taken as "" when absent or not a string, VerifyIssuer(
\* expected, true) is true exactly when iss = expected, and VerifyIssuer(
\* expected, false) exactly when iss = expected or iss = "".
C7_Issuer ==
    ret.op = "VerifyIssuer" =>
        LET iss == IF store["iss"].kind = "string" THEN store["iss"].str ELSE ""
        IN  /\ ret.req => ret.resS = (iss = ret.name)
            /\ ~ret.req => ret.resS = (iss = ret.name \/ iss = "")

C7_Witness ==
    /\ ret.op = "VerifyIssuer"
    /\ store["iss"] = String("x")
    /\ ret.name = ""
    /\ ~ret.req
    /\ ret.resS = FALSE

C9_UnusableIsAbsent ==
    /\ (ret.op = "VerifyExpiresAt" /\ Unusable(store["exp"])) =>
            ret.resS = ~ret.req /\ ret.resR = ~ret.req
    /\ (ret.op = "VerifyIssuedAt" /\ Unusable(store["iat"])) =>
            ret.resS = ~ret.req /\ ret.resR = ~ret.req
    /\ (ret.op = "VerifyNotBefore" /\ Unusable(store["nbf"])) =>
            ret.resS = ~ret.req /\ ret.resR = ~ret.req
    /\ (ret.op = "Valid" /\ \A k \in TimeKeys : Unusable(store[k])) =>
            ret.errS.isNil /\ ret.errR.isNil

C9_Witness ==
    /\ ret.op = "VerifyNotBefore"
    /\ store["exp"] = String("soon")
    /\ store["iat"] = Bool(TRUE)
    /\ store["nbf"] = IntVal(1)
    /\ ret.req
    /\ r # 0
    /\ ret.resR = FALSE

\* C10: a time claim given as the decimal text of a number gives every
\* verifier the result it gives for the same number as a float64, whose
\* whole seconds are the number truncated toward zero.
C10_TextAsFloat ==
    \A t \in FloatTenths :
        LET asFloat(k) == MapClaims(set(store, k, Float64(t)), s)
            truncated == IF t >= 0 THEN t \div 10 ELSE -((-t) \div 10)
        IN  /\ (ret.op = "VerifyExpiresAt" /\ store["exp"] = Number(DecimalText(t))) =>
                    /\ ret.resS = VerifyExpiresAt(asFloat("exp"), ret.cmp, ret.req)
                    /\ ret.resS = (ret.cmp <= truncated)
            /\ (ret.op = "VerifyIssuedAt" /\ store["iat"] = Number(DecimalText(t))) =>
                    /\ ret.resS = VerifyIssuedAt(asFloat("iat"), ret.cmp, ret.req)
                    /\ ret.resS = (ret.cmp >= truncated - s)
            /\ (ret.op = "VerifyNotBefore" /\ store["nbf"] = Number(DecimalText(t))) =>
                    /\ ret.resS = VerifyNotBefore(asFloat("nbf"), ret.cmp, ret.req)
                    /\ ret.resS = (ret.cmp >= truncated - s)

====
